---- MODULE Spec2Model ----
(***************************************************************************)
(* Model of typescript.koans: the Stack class (src/src/06_stack.ts) and    *)
(* the drop/find/fill family of array functions (src/src/02_array.ts).     *)
(*                                                                         *)
(* JavaScript arrays are modelled as TLA+ sequences: JS index i is         *)
(* sequence index i + 1.  A read outside the array yields Undefined.       *)
(***************************************************************************)
EXTENDS Integers, Sequences, FiniteSets, TLC

\* ------------------------------------------------------------------ bounds
MaxSize == 3      \* deepest stack explored
MaxLen == 3       \* longest input array explored
MaxCount == 5     \* largest count / start / end argument explored

\* ------------------------------------------------------------------ values
Values == {"a", "b"}
Undefined == "undefined"
Null == "null"
AllValues == Values \cup {Undefined}

IsNoValue(v) == v \in {Undefined, Null}

RECURSIVE SeqsUpTo(_)
SeqsUpTo(n) ==
  IF n = 0 THEN {<<>>}
  ELSE LET S == SeqsUpTo(n - 1)
       IN  S \cup {Append(s, v) : s \in {t \in S : Len(t) = n - 1}, v \in Values}

Max(x, y) == IF x > y THEN x ELSE y
Min(x, y) == IF x < y THEN x ELSE y

\* ------------------------------------------------- JavaScript array built-ins
\* a[i] for a JS index i; out of range reads give undefined
At(a, i) == IF 0 <= i /\ i < Len(a) THEN a[i + 1] ELSE Undefined

\* Array.prototype.slice(start, end): negative arguments count from the end,
\* both are clamped to 0..length
RelIndex(len, i) == IF i < 0 THEN Max(len + i, 0) ELSE Min(i, len)
slice(a, start, end) ==
  LET k == RelIndex(Len(a), start)
      f == RelIndex(Len(a), end)
  IN  IF f > k THEN SubSeq(a, k + 1, f) ELSE <<>>

\* Array.prototype.reverse on a copy
reverse(a) == [i \in 1..Len(a) |-> a[Len(a) + 1 - i]]

\* Array.prototype.findIndex with a predicate given as the set of values it
\* accepts: lowest JS index whose element is accepted, or -1
jsFindIndex(a, p) ==
  IF \E i \in 1..Len(a) : a[i] \in p
  THEN (CHOOSE i \in 1..Len(a) : a[i] \in p /\ \A j \in 1..(i - 1) : a[j] \notin p) - 1
  ELSE -1

\* ===================================================================== Stack
VARIABLES
  array,      \* this.array; JS index 0 (sequence index 1) is the top
  op,         \* the last operation called
  arg,        \* the value given to the last push
  ret,        \* the value returned by the last pop / peek
  retArr,     \* the array object last returned by toArray()
  hasRef,     \* the caller holds an array returned by toArray()
  aliased,    \* that array is the same object as this.array
  err,        \* the error raised by the last operation, or "none"
  prev,       \* this.array before the last operation
  prevOp,     \* the operation before the last one
  held,       \* ghost: values pushed and not yet popped, oldest first
  prevHeld,   \* ghost: held before the last operation
  emptied,    \* ghost: pop or peek has been called on an empty stack
  net         \* ghost: pushes minus pops made on a non-empty stack

stackVars == <<array, op, arg, ret, retArr, hasRef, aliased, err, prev, prevOp, held, prevHeld,
               emptied, net>>

\* get size()
size(a) == Len(a)

\* push(value): this.array = [value, ...this.array]
pushAtBottom(a, v) == a \o <<v>>
push(a, v) == <<v>> \o a

\* pop(): top = this.array[0]; this.array = this.array.slice(1); return top
popThrowsOnEmpty(a) ==
  IF Len(a) = 0
  THEN [array |-> a, ret |-> "none", err |-> "RangeError"]
  ELSE [array |-> slice(a, 1, Len(a)), ret |-> At(a, 0), err |-> "none"]
pop(a) == [array |-> slice(a, 1, Len(a)), ret |-> At(a, 0), err |-> "none"]

\* peek(): this.array.length ? this.array[0] : null
peek(a) == IF Len(a) # 0 THEN At(a, 0) ELSE Null

\* toArray(): return this.array
toArrayBottomFirst(a) == reverse(a)
toArray(a) == a

StackInit ==
  /\ array = <<>>
  /\ op = "new"
  /\ arg = Undefined
  /\ ret = Undefined
  /\ retArr = <<>>
  /\ hasRef = FALSE
  /\ aliased = FALSE
  /\ err = "none"
  /\ prev = <<>>
  /\ prevOp = "new"
  /\ held = <<>>
  /\ prevHeld = <<>>
  /\ emptied = FALSE
  /\ net = 0

\* The guards on MaxSize only cap the exploration (stack depth and the ghost
\* counter); the methods themselves have no precondition.
Push(v) ==
  /\ Len(array) < MaxSize
  /\ net < MaxSize
  /\ array' = push(array, v)
  /\ op' = "push"
  /\ arg' = v
  /\ err' = "none"
  /\ aliased' = FALSE
  /\ prev' = array
  /\ prevOp' = op
  /\ held' = Append(held, v)
  /\ prevHeld' = held
  /\ net' = net + 1
  /\ UNCHANGED <<ret, retArr, hasRef, emptied>>

Pop ==
  /\ net > 0 - MaxSize
  /\ array' = pop(array).array
  /\ ret' = pop(array).ret
  /\ op' = "pop"
  /\ err' = pop(array).err
  /\ aliased' = FALSE
  /\ prev' = array
  /\ prevOp' = op
  /\ held' = IF Len(held) > 0 THEN SubSeq(held, 1, Len(held) - 1) ELSE held
  /\ prevHeld' = held
  /\ emptied' = (emptied \/ size(array) = 0)
  /\ net' = IF size(array) > 0 THEN net - 1 ELSE net
  /\ UNCHANGED <<arg, retArr, hasRef>>

Peek ==
  /\ ret' = peek(array)
  /\ op' = "peek"
  /\ err' = "none"
  /\ prev' = array
  /\ prevOp' = op
  /\ prevHeld' = held
  /\ emptied' = (emptied \/ size(array) = 0)
  /\ UNCHANGED <<array, arg, retArr, hasRef, aliased, held, net>>

ToArray ==
  /\ retArr' = toArray(array)
  /\ hasRef' = TRUE
  /\ aliased' = TRUE
  /\ op' = "toArray"
  /\ err' = "none"
  /\ prev' = array
  /\ prevOp' = op
  /\ prevHeld' = held
  /\ UNCHANGED <<array, arg, ret, held, emptied, net>>

\* ---- what a caller can do with what the class hands out
\* the effect on this.array of a change to the array toArray() returned
Backing(newRef) == IF aliased THEN newRef ELSE array

\* stack.toArray()[i] = v
CallerWrite(i, v) ==
  /\ hasRef
  /\ i \in 1..Len(retArr)
  /\ retArr' = [retArr EXCEPT ![i] = v]
  /\ array' = Backing(retArr')
  /\ op' = "callerWrite"
  /\ err' = "none"
  /\ prev' = array
  /\ prevOp' = op
  /\ prevHeld' = held
  /\ UNCHANGED <<arg, ret, hasRef, aliased, held, emptied, net>>

\* stack.toArray().length = n
CallerSetLength(n) ==
  /\ hasRef
  /\ n \in 0..Len(retArr)
  /\ retArr' = SubSeq(retArr, 1, n)
  /\ array' = Backing(retArr')
  /\ op' = "callerSetLength"
  /\ err' = "none"
  /\ prev' = array
  /\ prevOp' = op
  /\ prevHeld' = held
  /\ UNCHANGED <<arg, ret, hasRef, aliased, held, emptied, net>>

\* stack.size = n: size has a getter and no setter, so the assignment throws
\* a TypeError in strict code and is ignored in sloppy code
CallerAssignSize ==
  /\ err' \in {"TypeError", "none"}
  /\ op' = "assignSize"
  /\ prev' = array
  /\ prevOp' = op
  /\ prevHeld' = held
  /\ UNCHANGED <<array, arg, ret, retArr, hasRef, aliased, held, emptied, net>>

\* ============================================================ array functions
VARIABLES
  collection,   \* the input array, as it is after the call
  input,        \* the input array, as it was before the call
  predicate,    \* the set of values the predicate accepts
  fn,           \* the function last applied
  count,        \* argument of drop / dropRight
  startIndex,   \* argument of fill / findIndex / findLastIndex
  endIndex,     \* argument of fill
  replacement,  \* argument of fill
  result,       \* the array returned
  sameObject,   \* the array returned is the very object passed in
  index         \* the index returned

arrVars == <<collection, input, predicate, fn, count, startIndex, endIndex,
             replacement, result, sameObject, index>>

vars == <<stackVars, arrVars>>

\* negate(predicate)
negate(p) == AllValues \ p

\* drop(input, count): input.slice(count, input.length)
drop(a, n) == slice(a, n, Len(a))

\* dropRight(input, count): input.slice(0, input.length - count)
dropRight(a, n) == slice(a, 0, Len(a) - n)

\* dropWhile(collection, predicate)
dropWhile(a, p) ==
  LET start == jsFindIndex(a, negate(p))
  IN  slice(a, start, Len(a))

\* dropRightWhile(collection, predicate)
dropRightWhile(a, p) ==
  LET endOffset == jsFindIndex(reverse(slice(a, 0, Len(a))), negate(p))
  IN  slice(a, 0, Len(a) - endOffset)

\* fill(collection, replacement, startIndex, endIndex): copies, then assigns
\* result[i] for startIndex <= i < endIndex; an assignment past the end
\* lengthens the copy and leaves holes, which read as undefined.  Only
\* startIndex >= 0 is explored (result[-1] = v would set a property, not an
\* element)
fillInPlace(a, v, s, e) ==
  LET n == IF s < e THEN Max(Len(a), e) ELSE Len(a)
      r == [i \in 1..n |-> IF s <= i - 1 /\ i - 1 < e THEN v ELSE At(a, i - 1)]
  IN  [collection |-> r, result |-> r, sameObject |-> TRUE]
fill(a, v, s, e) ==
  LET n == IF s < e THEN Max(Len(a), e) ELSE Len(a)
      r == [i \in 1..n |-> IF s <= i - 1 /\ i - 1 < e THEN v ELSE At(a, i - 1)]
  IN  [collection |-> a, result |-> r, sameObject |-> FALSE]

\* findIndex(collection, predicate, startIndex)
findIndex(a, p, s) ==
  LET foundIndex == jsFindIndex(slice(a, s, Len(a)), p)
  IN  IF foundIndex = -1 THEN foundIndex ELSE s + foundIndex

\* findLastIndex(collection, predicate, startIndex)
RECURSIVE findLastIndex(_, _, _)
findLastIndex(a, p, i) ==
  IF i >= 0
  THEN IF At(a, i) \in p THEN i ELSE findLastIndex(a, p, i - 1)
  ELSE -1

ArrInit ==
  /\ collection \in SeqsUpTo(MaxLen)
  /\ input = collection
  /\ predicate \in SUBSET AllValues
  /\ fn = "none"
  /\ count = 0
  /\ startIndex = 0
  /\ endIndex = 0
  /\ replacement = Undefined
  /\ result = <<>>
  /\ sameObject = FALSE
  /\ index = -1

Drop(n) ==
  /\ fn' = "drop"
  /\ count' = n
  /\ result' = drop(collection, n)
  /\ startIndex' = 0 /\ endIndex' = 0 /\ replacement' = Undefined /\ index' = -1
  /\ sameObject' = FALSE
  /\ UNCHANGED <<collection, input, predicate>>

DropRight(n) ==
  /\ fn' = "dropRight"
  /\ count' = n
  /\ result' = dropRight(collection, n)
  /\ startIndex' = 0 /\ endIndex' = 0 /\ replacement' = Undefined /\ index' = -1
  /\ sameObject' = FALSE
  /\ UNCHANGED <<collection, input, predicate>>

DropWhile ==
  /\ fn' = "dropWhile"
  /\ result' = dropWhile(collection, predicate)
  /\ count' = 0 /\ startIndex' = 0 /\ endIndex' = 0
  /\ replacement' = Undefined /\ index' = -1
  /\ sameObject' = FALSE
  /\ UNCHANGED <<collection, input, predicate>>

DropRightWhile ==
  /\ fn' = "dropRightWhile"
  /\ result' = dropRightWhile(collection, predicate)
  /\ count' = 0 /\ startIndex' = 0 /\ endIndex' = 0
  /\ replacement' = Undefined /\ index' = -1
  /\ sameObject' = FALSE
  /\ UNCHANGED <<collection, input, predicate>>

Fill(v, s, e) ==
  /\ fn' = "fill"
  /\ replacement' = v
  /\ startIndex' = s
  /\ endIndex' = e
  /\ collection' = fill(collection, v, s, e).collection
  /\ result' = fill(collection, v, s, e).result
  /\ sameObject' = fill(collection, v, s, e).sameObject
  /\ input' = collection
  /\ count' = 0 /\ index' = -1
  /\ UNCHANGED predicate

FindIndex(s) ==
  /\ fn' = "findIndex"
  /\ startIndex' = s
  /\ index' = findIndex(collection, predicate, s)
  /\ count' = 0 /\ endIndex' = 0 /\ replacement' = Undefined /\ result' = <<>>
  /\ sameObject' = FALSE
  /\ UNCHANGED <<collection, input, predicate>>

FindLastIndex(s) ==
  /\ fn' = "findLastIndex"
  /\ startIndex' = s
  /\ index' = findLastIndex(collection, predicate, s)
  /\ count' = 0 /\ endIndex' = 0 /\ replacement' = Undefined /\ result' = <<>>
  /\ sameObject' = FALSE
  /\ UNCHANGED <<collection, input, predicate>>

\* ============================================================ specifications
ArrIdle ==
  /\ collection = <<>>
  /\ input = <<>>
  /\ predicate = {}
  /\ fn = "none"
  /\ count = 0
  /\ startIndex = 0
  /\ endIndex = 0
  /\ replacement = Undefined
  /\ result = <<>>
  /\ sameObject = FALSE
  /\ index = -1

\* a new Stack driven through its interface only
Init == StackInit /\ ArrIdle

Next ==
  \/ \E v \in Values : Push(v) /\ UNCHANGED arrVars
  \/ Pop /\ UNCHANGED arrVars
  \/ Peek /\ UNCHANGED arrVars
  \/ ToArray /\ UNCHANGED arrVars

Spec == Init /\ [][Next]_vars

\* a new Stack and a caller that also uses the array toArray() returned and
\* tries to assign to size
NextCaller ==
  \/ \E v \in Values : Push(v) /\ UNCHANGED arrVars
  \/ Pop /\ UNCHANGED arrVars
  \/ Peek /\ UNCHANGED arrVars
  \/ ToArray /\ UNCHANGED arrVars
  \/ \E i \in 1..MaxSize, v \in Values : CallerWrite(i, v) /\ UNCHANGED arrVars
  \/ \E n \in 0..MaxSize : CallerSetLength(n) /\ UNCHANGED arrVars
  \/ CallerAssignSize /\ UNCHANGED arrVars

SpecCaller == Init /\ [][NextCaller]_vars

\* the array functions applied to every input within the bounds
InitArr == StackInit /\ ArrInit

NextArr ==
  \/ \E n \in 0..MaxCount : Drop(n) /\ UNCHANGED stackVars
  \/ \E n \in 0..MaxCount : DropRight(n) /\ UNCHANGED stackVars
  \/ DropWhile /\ UNCHANGED stackVars
  \/ DropRightWhile /\ UNCHANGED stackVars
  \/ \E v \in Values, s \in 0..MaxCount, e \in 0..MaxCount :
       Fill(v, s, e) /\ UNCHANGED stackVars
  \/ \E s \in (0 - MaxCount)..MaxCount : FindIndex(s) /\ UNCHANGED stackVars
  \/ \E s \in (0 - MaxCount)..MaxCount : FindLastIndex(s) /\ UNCHANGED stackVars

SpecArr == InitArr /\ [][NextArr]_vars

\* ==================================================================== claims
\* number of leading / trailing elements of a the predicate accepts
PrefixLen(a, p) == Cardinality({i \in 1..Len(a) : \A j \in 1..i : a[j] \in p})
SuffixLen(a, p) == Cardinality({i \in 1..Len(a) : \A j \in i..Len(a) : a[j] \in p})
\* the elements of a at JS indexes first .. last
Range(a, first, last) == [i \in 1..Max(last - first + 1, 0) |-> a[first + i]]

\* C1: the Stack is LIFO. A push(v) raises size by exactly 1 and makes v the
\* value the next peek() or pop() returns; a pop() on a non-empty stack
\* returns the most recently pushed value not yet popped and lowers size by
\* exactly 1.
C1_Lifo ==
  /\ op = "push" =>
       /\ size(array) = size(prev) + 1
       /\ peek(array) = arg
       /\ pop(array).ret = arg
  /\ (op = "pop" /\ size(prev) > 0) =>
       /\ ret = prevHeld[Len(prevHeld)]
       /\ size(array) = size(prev) - 1

C1_Witness ==
  /\ op = "pop"
  /\ size(prev) = 2
  /\ size(array) = 1
  /\ ret = "b"
  /\ array = <<"a">>

\* C2: pop() or peek() on an empty Stack raises no error, returns a no-value
\* sentinel and leaves the stack empty; a push(v) made afterwards and followed
\* by pop() returns v.
C2_EmptyPopPeek ==
  /\ (op \in {"pop", "peek"} /\ size(prev) = 0) =>
       /\ err = "none"
       /\ IsNoValue(ret)
       /\ array = prev
       /\ size(array) = 0
  /\ (emptied /\ op = "pop" /\ prevOp = "push") => ret = arg

C2_Witness ==
  /\ emptied
  /\ op = "pop"
  /\ prevOp = "push"
  /\ ret = "a"
  /\ size(array) = 0

\* C3: callers cannot bypass size accounting. size always equals the number
\* of pushes minus the number of pops made on a non-empty stack, and no
\* caller action other than push and pop (writing to or shortening the array
\* toArray() returned, assigning to size) changes the stack.
C3_Encapsulated ==
  /\ size(array) = net
  /\ op \in {"callerWrite", "callerSetLength", "assignSize"} => array = prev

\* C4: dropWhile(seq, p) is seq without its maximal prefix of elements
\* satisfying p: empty when p holds everywhere, seq when p holds nowhere.
C4_DropWhile ==
  fn = "dropWhile" =>
    result = Range(collection, PrefixLen(collection, predicate), Len(collection) - 1)

\* C5: dropRightWhile(seq, p) is seq without its maximal suffix of elements
\* satisfying p: empty when p holds everywhere, seq when p holds nowhere.
C5_DropRightWhile ==
  fn = "dropRightWhile" =>
    result = Range(collection, 0, Len(collection) - SuffixLen(collection, predicate) - 1)

\* C6: for count >= 0, drop(seq, count) is seq without its first count
\* elements and dropRight(seq, count) is seq without its last count elements;
\* both are empty whenever count >= len(seq).
C6_DropCount ==
  /\ fn = "drop" => result = Range(collection, count, Len(collection) - 1)
  /\ fn = "dropRight" => result = Range(collection, 0, Len(collection) - count - 1)

\* C7: findIndex(seq, p, startIndex) is the lowest valid index i >= startIndex
\* with p true on seq[i], and -1 when there is none, for every startIndex.
C7_FindIndex ==
  fn = "findIndex" =>
    LET hits == {i \in 0..(Len(collection) - 1) :
                   startIndex <= i /\ collection[i + 1] \in predicate}
    IN  IF hits = {} THEN index = -1
        ELSE index \in hits /\ \A j \in hits : index <= j

\* C8: findLastIndex(seq, p, startIndex) is the highest valid index
\* i <= startIndex with p true on seq[i], and -1 when there is none, whatever
\* p answers on an absent element.
C8_FindLastIndex ==
  fn = "findLastIndex" =>
    LET hits == {i \in 0..(Len(collection) - 1) :
                   i <= startIndex /\ collection[i + 1] \in predicate}
    IN  IF hits = {} THEN index = -1
        ELSE index \in hits /\ \A j \in hits : j <= index

\* C9: toArray() returns exactly the values held, most recently pushed first,
\* so that on a non-empty stack its first element is what peek() returns;
\* neither toArray() nor peek() changes the stack.
C9_ToArrayFrame ==
  /\ op = "toArray" =>
       /\ retArr = reverse(held)
       /\ size(array) > 0 => At(retArr, 0) = peek(array)
  /\ op \in {"toArray", "peek"} => (array = prev /\ size(array) = Len(held))

C9_Witness ==
  /\ op = "toArray"
  /\ retArr = <<"b", "a">>
  /\ held = <<"a", "b">>
  /\ prevOp = "peek"

====
